---------------------------- MODULE Spec2Model ----------------------------
(***************************************************************************)
(* A model of tools/check.py: the script that reconciles the rule files    *)
(* under rules/ and explain/ with the package names of Debian testing      *)
(* (apt-cache pkgnames plus a hard-coded allow-list) and Debian stable     *)
(* (tools/Packages_amd64), reports the deprecated and the unknown names    *)
(* and "git mv"s the deprecated files into archive/.                       *)
(*                                                                         *)
(* The script is straight-line code; pc is the position of the             *)
(* interpreter.  Everything the script reads from outside (the output and  *)
(* the exit status of apt-cache, the cached index, what ben downloads, the *)
(* directory listings, the result of every git mv) is chosen               *)
(* nondeterministically from small sets.                                   *)
(***************************************************************************)
EXTENDS Naturals, Sequences, FiniteSets

(***************************************************************************)
(* Bounds of the model.                                                    *)
(***************************************************************************)
\* at most MaxFiles entries in a category directory when the run starts
MaxFiles == 3

\* names that may occur as entries of rules/ and of explain/
RulesNames == {"a", "b", "c", "MyPkg", "libraspberrypi0"}
ExplainNames == {"b", "MyPkg", "mypkg"}
\* names apt-cache pkgnames may print, names the stable index may list
AptNames == {"a", "mypkg"}
\* names apt-cache pkgnames may have printed when it exits non-zero
AptPartialNames == {"a"}
StableNames == {"b", "MyPkg", "libraspberrypi0"}

(***************************************************************************)
(* Program constants.                                                      *)
(***************************************************************************)
\* distro_info.DebianDistroInfo().stable(): the codename of stable
STABLE == "trixie"

\* the names added to testing after the apt-cache output
AllowList == {"raspberrypi-bootloader", "libraspberrypi0", "google-earth-stable"}

Categories == {"rules", "explain"}

\* the last argument of the two process() calls
ArchiveArg(category) == IF category = "rules" THEN STABLE ELSE "explain"

\* os.path.join('archive', archive)
DestDir(category) == <<"archive", ArchiveArg(category)>>

DestDirs == {DestDir(c) : c \in Categories}

(***************************************************************************)
(* Strings.                                                                *)
(***************************************************************************)
\* str.lower() on the strings of the model
lower(s) == IF s = "MyPkg" THEN "mypkg" ELSE s

\* a path 'dir/name' is the pair <<dir, name>>; lower() acts on all of it
lowerPath(f) == <<lower(f[1]), lower(f[2])>>

basename(f) == f[2]

\* glob.glob('<dir>/*') on a directory holding `entries`
glob(dir, entries) == {<<dir, n>> : n \in entries}

\* Python's order on the strings of the model (upper case sorts first)
Rank(n) ==
    CASE n = "MyPkg" -> 1
      [] n = "a" -> 2
      [] n = "b" -> 3
      [] n = "c" -> 4
      [] n = "libraspberrypi0" -> 5
      [] n = "mypkg" -> 6
      [] OTHER -> 7

RECURSIVE sorted(_)
sorted(S) ==
    IF S = {} THEN <<>>
    ELSE LET m == CHOOSE x \in S : \A y \in S : Rank(x) <= Rank(y)
         IN  <<m>> \o sorted(S \ {m})

Range(s) == {s[i] : i \in DOMAIN s}

(***************************************************************************)
(* The package index: a set of lines <<field, value>>.  Every record of    *)
(* the index has a Package: line and a Version: line.                      *)
(***************************************************************************)
IndexOf(S) == {<<"Package", n>> : n \in S} \cup {<<"Version", "1.0">> : n \in S}

IndexFiles == {IndexOf(S) : S \in SUBSET StableNames}

\* the loop over the lines of tools/Packages_amd64
ParsePackages(lines) == {l[2] : l \in {x \in lines : x[1] = "Package"}}

(***************************************************************************)
(* process(): the classification.                                          *)
(***************************************************************************)
Unmatched(packages, testingSet) == packages \ testingSet

\* line 45 written with packages in place of unknown
DeprecatedIgnoresTesting(packages, testingSet, stableSet) ==
    packages \cap stableSet

Deprecated(packages, testingSet, stableSet) ==
    Unmatched(packages, testingSet) \cap stableSet

\* line 46 left out
UnknownKeepsDeprecated(packages, testingSet, stableSet) ==
    Unmatched(packages, testingSet)

Unknown(packages, testingSet, stableSet) ==
    Unmatched(packages, testingSet) \ stableSet

\* filters and explain, from the two directory listings
Filters(entries) == {basename(f) : f \in glob("rules", entries)}

\* the condition of line 41 left out
ExplainFilterNone(f) == TRUE

ExplainFilter(f) == f = lowerPath(f)

Explain(entries) ==
    {basename(f) : f \in {g \in glob("explain", entries) : ExplainFilter(g)}}

(***************************************************************************)
(* State.                                                                  *)
(***************************************************************************)
VARIABLES
    pc,          \* position of the interpreter
    aptStatus,   \* apt-cache: "none", "nospawn", "ok", "failed" (non-zero exit)
    testing,     \* the set testing
    cached,      \* tools/Packages_amd64 is a file
    index,       \* the lines of tools/Packages_amd64 ({} when not a file)
    sources,     \* tools/Sources exists
    benCalls,    \* the number of times ben download was called
    benStatus,   \* ben: "none", "ok", "failed" (no start or non-zero exit)
    stable,      \* the set stable
    dir,         \* dir[c]: the entries of directory c
    destdirs,    \* the archive directories that exist
    archive,     \* archive[d]: the entries of archive directory d
    packages,    \* packages["rules"] = filters, packages["explain"] = explain
    category,    \* the category of the current process() call
    deprecated,  \* local of process()
    unknown,     \* local of process()
    calls,       \* the git mv calls so far: <<category, item, exit status>>
    stdout,      \* what was printed
    cachedAtStart,   \* history: cached when the run started
    sourcesAtStart,  \* history: sources when the run started
    dirAtStart       \* history: dir when the run started

vars == <<pc, aptStatus, testing, cached, index, sources, benCalls, benStatus,
          stable,
          dir, destdirs, archive, packages, category, deprecated, unknown,
          calls, stdout, cachedAtStart, sourcesAtStart, dirAtStart>>

fsVars == <<dir, destdirs, archive>>
refVars == <<aptStatus, testing, stable>>
cacheVars == <<cached, index, sources, benCalls, benStatus>>
procVars == <<packages, category, deprecated, unknown, calls, stdout>>
histVars == <<cachedAtStart, sourcesAtStart, dirAtStart>>

Bounded(U) == {S \in SUBSET U : Cardinality(S) <= MaxFiles}

Init ==
    /\ pc = "apt"
    /\ aptStatus = "none"
    /\ testing = {}
    /\ cached \in BOOLEAN
    /\ index \in IndexFiles
    /\ (~cached => index = {})
    /\ sources \in BOOLEAN
    /\ (~cached => ~sources)
    /\ benCalls = 0
    /\ benStatus = "none"
    /\ stable = {}
    /\ dir \in [Categories -> SUBSET (RulesNames \cup ExplainNames)]
    /\ dir["rules"] \in Bounded(RulesNames)
    /\ dir["explain"] \in Bounded(ExplainNames)
    /\ destdirs = {}
    /\ archive = [d \in DestDirs |-> {}]
    /\ packages = [c \in Categories |-> {}]
    /\ category = "rules"
    /\ deprecated = {}
    /\ unknown = {}
    /\ calls = <<>>
    /\ stdout = <<>>
    /\ cachedAtStart = cached
    /\ sourcesAtStart = sources
    /\ dirAtStart = dir

(***************************************************************************)
(* Lines 11-23: the testing set.                                           *)
(***************************************************************************)
\* testing after the loop over proc.stdout and the three add() calls
\* lines 18-23 left out
TestingSetNoAllowList(output) == output

TestingSet(output) == output \cup AllowList

\* Popen cannot start apt-cache: the exception ends the run
AptSpawnFails ==
    /\ pc = "apt"
    /\ aptStatus' = "nospawn"
    /\ pc' = "crashed"
    /\ UNCHANGED <<testing, stable, fsVars, cacheVars, procVars, histVars>>

\* apt-cache runs and exits 0
AptQuery ==
    /\ pc = "apt"
    /\ \E output \in SUBSET AptNames : testing' = TestingSet(output)
    /\ aptStatus' = "ok"
    /\ pc' = "cache"
    /\ UNCHANGED <<stable, fsVars, cacheVars, procVars, histVars>>

\* apt-cache runs and exits non-zero: the exit status is never read, the
\* lines it printed before failing are used
AptQueryFails ==
    /\ pc = "apt"
    /\ \E output \in SUBSET AptPartialNames : testing' = TestingSet(output)
    /\ aptStatus' = "failed"
    /\ pc' = "cache"
    /\ UNCHANGED <<stable, fsVars, cacheVars, procVars, histVars>>

(***************************************************************************)
(* Lines 25-37: the stable set.                                            *)
(***************************************************************************)
\* line 26 without its condition
NeedDownloadAlways == TRUE

\* line 26: not os.path.isfile('tools/Packages_amd64')
NeedDownload == ~cached

CheckCache ==
    /\ pc = "cache"
    /\ pc' = IF NeedDownload THEN "download" ELSE "parse"
    /\ UNCHANGED <<fsVars, refVars, cacheVars, procVars, histVars>>

\* lines 27-30: ben exits 0 having written both index files
Download ==
    /\ pc = "download"
    /\ cached' = TRUE
    /\ index' \in IndexFiles
    /\ benCalls' = benCalls + 1
    /\ benStatus' = "ok"
    /\ sources' = TRUE
    /\ pc' = "unlink"
    /\ UNCHANGED <<fsVars, refVars, procVars, histVars>>

\* line 31: os.unlink('tools/Sources')
UnlinkSources ==
    /\ pc = "unlink"
    /\ sources
    /\ sources' = FALSE
    /\ pc' = "parse"
    /\ UNCHANGED <<cached, index, benCalls, benStatus, fsVars, refVars,
                   procVars, histVars>>

\* lines 27-30: ben cannot be started or exits non-zero: check_call raises
DownloadFails ==
    /\ pc = "download"
    /\ benCalls' = benCalls + 1
    /\ benStatus' = "failed"
    /\ pc' = "crashed"
    /\ UNCHANGED <<cached, index, sources, fsVars, refVars, procVars, histVars>>

\* lines 33-37
ParseStable ==
    /\ pc = "parse"
    /\ stable' = ParsePackages(index)
    /\ pc' = "glob"
    /\ UNCHANGED <<aptStatus, testing, fsVars, cacheVars, procVars, histVars>>

(***************************************************************************)
(* Lines 40-41: the two inventories.                                       *)
(***************************************************************************)
Glob ==
    /\ pc = "glob"
    /\ packages' = [c \in Categories |->
                       IF c = "rules" THEN Filters(dir["rules"])
                       ELSE Explain(dir["explain"])]
    /\ pc' = "process"
    /\ UNCHANGED <<fsVars, refVars, cacheVars, histVars,
                   category, deprecated, unknown, calls, stdout>>

(***************************************************************************)
(* process(category, packages, testing, stable, archive), lines 43-54.     *)
(***************************************************************************)
\* lines 44-48: classify, print the header and the deprecated names
ProcessBegin ==
    /\ pc = "process"
    /\ deprecated' = Deprecated(packages[category], testing, stable)
    /\ unknown' = Unknown(packages[category], testing, stable)
    /\ stdout' = stdout \o << <<"[]:", category>>,
                              <<"moved to", STABLE, sorted(deprecated')>> >>
    /\ pc' = "archive"
    /\ UNCHANGED <<fsVars, refVars, cacheVars, histVars,
                   packages, category, calls>>

\* the names git mv was called for in process(c)
Attempted(c) == {calls[i][2] : i \in {j \in DOMAIN calls : calls[j][1] = c}}

\* line 49 looping over packages
ToVisitAll == packages[category] \ Attempted(category)

\* line 49: the names the for loop has still to visit
ToVisit == deprecated \ Attempted(category)

\* lines 51-52
MakeDestDir == destdirs \cup {DestDir(category)}

\* a copy in place of a move
MovedDirKeeps(item) == dir

\* the directories after a git mv of category/item that succeeded
MovedDir(item) == [dir EXCEPT ![category] = @ \ {item}]

MovedArchive(item) == [archive EXCEPT ![DestDir(category)] = @ \cup {item}]

\* lines 50-53, git mv exits 0
MoveOk ==
    /\ pc = "archive"
    /\ \E item \in ToVisit :
          /\ item \in dir[category]
          /\ item \notin archive[DestDir(category)]
          /\ destdirs' = MakeDestDir
          /\ dir' = MovedDir(item)
          /\ archive' = MovedArchive(item)
          /\ calls' = Append(calls, <<category, item, 0>>)
    /\ UNCHANGED <<pc, refVars, cacheVars, histVars,
                   packages, category, deprecated, unknown, stdout>>

\* line 53 with check_call in place of call
MoveFailsAborts ==
    /\ pc = "archive"
    /\ \E item \in ToVisit :
          /\ destdirs' = MakeDestDir
          /\ calls' = Append(calls, <<category, item, 128>>)
    /\ pc' = "crashed"
    /\ UNCHANGED <<dir, archive, refVars, cacheVars, histVars,
                   packages, category, deprecated, unknown, stdout>>

\* lines 50-53, git mv exits non-zero (the file is not under version
\* control, the source is gone, ...): subprocess.call returns the status,
\* which is dropped
MoveFails ==
    /\ pc = "archive"
    /\ \E item \in ToVisit :
          /\ destdirs' = MakeDestDir
          /\ calls' = Append(calls, <<category, item, 128>>)
    /\ UNCHANGED <<pc, dir, archive, refVars, cacheVars, histVars,
                   packages, category, deprecated, unknown, stdout>>

\* lines 50-53, git cannot be started: subprocess.call raises
MoveRaises ==
    /\ pc = "archive"
    /\ ToVisit # {}
    /\ destdirs' = MakeDestDir
    /\ pc' = "crashed"
    /\ UNCHANGED <<dir, archive, refVars, cacheVars, histVars, procVars>>

\* line 54 and what follows the return, for any pc and guard
PrintUnknownWhen(guard) ==
    /\ guard
    /\ IF category = "rules"
       THEN /\ stdout' = stdout \o << <<"unknown:", sorted(unknown)>>, <<"">> >>
            /\ category' = "explain"
            /\ pc' = "process"
       ELSE /\ stdout' = stdout \o << <<"unknown:", sorted(unknown)>> >>
            /\ category' = category
            /\ pc' = "done"
    /\ UNCHANGED <<fsVars, refVars, cacheVars, histVars,
                   packages, deprecated, unknown, calls>>

\* line 54 moved before the loop of lines 49-53
PrintUnknownBeforeLoop ==
    PrintUnknownWhen(pc = "archive" /\ Attempted(category) = {})

\* line 54, and the return to line 57 or the end of the script
PrintUnknown == PrintUnknownWhen(pc = "archive" /\ ToVisit = {})

Next ==
    \/ AptSpawnFails
    \/ AptQuery
    \/ AptQueryFails
    \/ CheckCache
    \/ Download
    \/ DownloadFails
    \/ UnlinkSources
    \/ ParseStable
    \/ Glob
    \/ ProcessBegin
    \/ MoveOk
    \/ MoveFails
    \/ MoveRaises
    \/ PrintUnknown

Spec == Init /\ [][Next]_vars

TypeOK ==
    /\ pc \in {"apt", "cache", "download", "unlink", "parse", "glob", "process",
               "archive", "done", "crashed"}
    /\ aptStatus \in {"none", "nospawn", "ok", "failed"}
    /\ benCalls \in 0..1
    /\ benStatus \in {"none", "ok", "failed"}
    /\ \A i \in DOMAIN calls : calls[i][1] \in Categories
    /\ category \in Categories

(***************************************************************************)
(* Reading the state.                                                      *)
(***************************************************************************)
\* the positions of the header line of category c in stdout
HeaderAt(c) == {i \in DOMAIN stdout : stdout[i][1] = "[]:" /\ stdout[i][2] = c}

\* the 'moved to' line of c was printed (it follows the header at once)
DepPrinted(c) == HeaderAt(c) # {}

\* the 'unknown:' line of c was printed
UnkPrinted(c) == \E i \in HeaderAt(c) : i + 2 \in DOMAIN stdout

\* the names of the two reports of c
DepReport(c) == UNION {Range(stdout[i + 1][3]) : i \in HeaderAt(c)}

UnkReport(c) ==
    UNION {Range(stdout[i + 2][2]) : i \in {j \in HeaderAt(c) : j + 2 \in DOMAIN stdout}}

\* the names git mv moved / failed to move in process(c)
MovedOk(c) == {calls[i][2] : i \in {j \in DOMAIN calls : calls[j][1] = c /\ calls[j][3] = 0}}

MoveFailed(c) == {calls[i][2] : i \in {j \in DOMAIN calls : calls[j][1] = c /\ calls[j][3] # 0}}

\* process(category, ...) has computed its locals
Classified == pc \in {"archive", "done"}

AllNames == RulesNames \cup ExplainNames \cup AptNames \cup StableNames \cup AllowList

\* process(c) has returned
Returned(c) == UnkPrinted(c)

(***************************************************************************)
(* C1: the classification of process() is a partition of the inventory:    *)
(* deprecated and unknown are disjoint subsets of L, and with L \cap       *)
(* current_set they cover L, every entry lying in exactly one of the three.*)
(***************************************************************************)
C1_Partition ==
    Classified =>
        LET L == packages[category]
            current == L \cap testing
        IN  /\ deprecated \cap unknown = {}
            /\ deprecated \subseteq L
            /\ unknown \subseteq L
            /\ deprecated \cup unknown \cup current = L
            /\ \A n \in L :
                  Cardinality({B \in {<<1, deprecated>>, <<2, unknown>>, <<3, current>>} :
                                  n \in B[2]}) = 1

C1_Witness ==
    /\ pc = "archive"
    /\ deprecated # {}
    /\ unknown # {}
    /\ packages[category] \cap testing # {}

(***************************************************************************)
(* C2: deprecated = (L - current_set) \cap stable_set and unknown =        *)
(* (L - current_set) - stable_set, in the locals and in the two reports;   *)
(* a name in both reference sets is never deprecated.                      *)
(***************************************************************************)
C2_Formulas ==
    /\ Classified =>
          /\ \A n \in AllNames :
                /\ n \in deprecated <=>
                      (n \in packages[category] /\ n \notin testing /\ n \in stable)
                /\ n \in unknown <=>
                      (n \in packages[category] /\ n \notin testing /\ n \notin stable)
          /\ deprecated \cup unknown \subseteq AllNames
    /\ \A c \in Categories :
          /\ DepPrinted(c) =>
                DepReport(c) = {n \in packages[c] : n \notin testing /\ n \in stable}
          /\ UnkPrinted(c) =>
                UnkReport(c) = {n \in packages[c] : n \notin testing /\ n \notin stable}
          /\ DepPrinted(c) => DepReport(c) \cap (testing \cap stable) = {}

\* L = {a, b}, a current, stable empty: deprecated = {}, unknown = {b}
C2_Witness ==
    /\ pc = "done"
    /\ packages["rules"] = {"a", "b"}
    /\ packages["rules"] \cap testing = {"a"}
    /\ stable = {}
    /\ DepReport("rules") = {}
    /\ UnkReport("rules") = {"b"}

FailedMoveStep ==
    /\ Len(calls') = Len(calls) + 1
    /\ calls'[Len(calls')][3] # 0

C4_FailedMoveGoesOn ==
    /\ [][FailedMoveStep => pc' = "archive" /\ category' = category]_vars
    /\ [](pc = "done" =>
            \A c \in Categories :
                /\ UnkPrinted(c)
                /\ Attempted(c) = DepReport(c))

\* a failed move was followed by another move of the same category, and
\* the run went on to the end through the other category
C4_Witness ==
    /\ pc = "done"
    /\ \E i, j \in DOMAIN calls :
          /\ i < j
          /\ calls[i][1] = "rules" /\ calls[i][3] # 0
          /\ calls[j][1] = "rules"
    /\ MoveFailed("explain") # {}
    /\ UnkPrinted("rules") /\ UnkPrinted("explain")

(***************************************************************************)
(* C5 as stated: when apt-cache pkgnames fails (it cannot be started or    *)
(* exits non-zero) or ben download fails, the run ends there: nothing is   *)
(* classified or reported and no file is moved.                            *)
(***************************************************************************)
AcquisitionFailed ==
    \/ aptStatus \in {"nospawn", "failed"}
    \/ benStatus = "failed"

C5_AcquisitionFailureIsFatal ==
    AcquisitionFailed =>
        /\ stdout = <<>>
        /\ calls = <<>>
        /\ dir = dirAtStart

(***************************************************************************)
(* C6: an entry of explain/ whose name is not all lower case is in neither *)
(* report of explain and is never moved; an all-lower-case entry is        *)
(* classified as any other; rules/ is taken whole.                         *)
(***************************************************************************)
NotLowerCase(n) == n \in {"MyPkg"}

C6_CaseFilter ==
    /\ \A n \in dirAtStart["explain"] :
          NotLowerCase(n) =>
              /\ n \in dir["explain"]
              /\ n \notin archive[<<"archive", "explain">>]
              /\ n \notin Attempted("explain")
              /\ DepPrinted("explain") => n \notin DepReport("explain")
              /\ UnkPrinted("explain") => n \notin UnkReport("explain")
              /\ n \notin packages["explain"]
    /\ pc \in {"process", "archive", "done"} =>
          /\ \A n \in dirAtStart["explain"] :
                ~NotLowerCase(n) => n \in packages["explain"]
          /\ packages["rules"] = dirAtStart["rules"]

\* MyPkg, listed in stable and not in testing, stays in explain/ while
\* mypkg is reported unknown and MyPkg of rules/ is archived
C6_Witness ==
    /\ pc = "done"
    /\ {"MyPkg", "mypkg"} \subseteq dirAtStart["explain"]
    /\ "MyPkg" \in stable \ testing
    /\ "MyPkg" \in dir["explain"]
    /\ "mypkg" \in UnkReport("explain")
    /\ "MyPkg" \in MovedOk("rules")

(***************************************************************************)
(* C7: a name of the allow-list is always in testing once it is built, so  *)
(* an entry of that name is never reported deprecated or unknown and never *)
(* moved, whatever apt-cache printed and whatever stable holds.            *)
(***************************************************************************)
C7_AllowList ==
    \A n \in {"raspberrypi-bootloader", "libraspberrypi0", "google-earth-stable"} :
        /\ aptStatus \in {"ok", "failed"} => n \in testing
        /\ \A c \in Categories :
              /\ DepPrinted(c) => n \notin DepReport(c)
              /\ UnkPrinted(c) => n \notin UnkReport(c)
              /\ n \notin Attempted(c)
              /\ n \in dirAtStart[c] => n \in dir[c]
        /\ Classified => n \notin deprecated \cup unknown

\* apt-cache printed nothing, stable lists the name, rules/ holds it
C7_Witness ==
    /\ pc = "done"
    /\ testing = {"raspberrypi-bootloader", "libraspberrypi0", "google-earth-stable"}
    /\ "libraspberrypi0" \in stable
    /\ "libraspberrypi0" \in dirAtStart["rules"]
    /\ "libraspberrypi0" \in dir["rules"]
    /\ DepReport("rules") # {}

(***************************************************************************)
(* C8: git mv is called only for names reported deprecated for the         *)
(* category being processed; every other entry stays in its directory, no  *)
(* entry appears in one, and process() changes neither testing nor stable. *)
(***************************************************************************)
C8_Frame ==
    /\ [](\A c \in Categories :
            /\ Attempted(c) # {} => DepPrinted(c) /\ Attempted(c) \subseteq DepReport(c)
            /\ dir[c] \subseteq dirAtStart[c]
            /\ \A n \in dirAtStart[c] \ dir[c] : n \in MovedOk(c) /\ n \in DepReport(c)
            /\ \A n \in archive[<<"archive", IF c = "rules" THEN STABLE ELSE "explain">>] :
                  n \in MovedOk(c))
    /\ [][(pc \in {"process", "archive"}) => (testing' = testing /\ stable' = stable)]_vars

\* one name archived, while an unknown and a current name stayed
C8_Witness ==
    /\ pc = "done"
    /\ MovedOk("rules") = {"b"}
    /\ UnkReport("rules") = {"c"}
    /\ dir["rules"] = {"a", "c"}
    /\ "a" \in testing

PastDownload == pc \in {"parse", "glob", "process", "archive", "done"} \/ stdout # <<>>

\* the loop of lines 34-37 has run
StableBuilt == pc \in {"glob", "process", "archive", "done"} \/ stdout # <<>>

C10_DownloadOnDemand ==
    /\ benCalls <= 1
    /\ benCalls = 1 => ~cachedAtStart
    /\ cachedAtStart => benCalls = 0 /\ sources = sourcesAtStart /\ cached
    /\ PastDownload =>
          /\ benCalls = 1 <=> ~cachedAtStart
          /\ ~cachedAtStart => benStatus = "ok" /\ ~sources /\ cached
    /\ stdout # <<>> => StableBuilt
    /\ StableBuilt =>
          stable = {n \in AllNames : <<"Package", n>> \in index}

\* the index was absent: one download, the Sources ben wrote removed, and
\* the run classified both categories with a non-empty stable
C10_Witness ==
    /\ pc = "done"
    /\ ~cachedAtStart
    /\ cached
    /\ benCalls = 1
    /\ ~sources
    /\ stable # {}
    /\ UnkPrinted("explain")

=============================================================================
